---------------------------- MODULE Spec2Model ----------------------------
(***************************************************************************)
(* A model of jquery.keyboard.js: the $.Keys / $.KeyNames tables, the      *)
(* registration function $.fn.keyboard, and the two translators            *)
(* keyboard.onKeydown and keyboard.onKeypress that turn raw key events     *)
(* into normalized events for the single registered callback.              *)
(*                                                                         *)
(* Encoding of JavaScript values:                                          *)
(*   numbers     integers (key codes and character codes are >= 0)         *)
(*   undefined   Undefined, an integer outside the range of every code     *)
(*   null        Null, the tuple <<"null">>                                *)
(*   strings     Str(u), the tuple <<"string", u>>, u the sequence of the  *)
(*               string's UTF-16 code units                                *)
(***************************************************************************)
EXTENDS Integers, Sequences, FiniteSets

VARIABLES
    fn,             \* keyboard.fn: the registered callback
    lastKeydown,    \* keyboard.lastKeydown
    keydownSent,    \* keyboard.keydownSent
    firstKeypress,  \* keyboard.firstKeypress
    bound,          \* per element, how many times the two translators are bound
    raw,            \* history: the raw event handled in the last step, if any
    calls,          \* history: the callback invocations made while handling it
    rets,           \* history: what each bound translator returned to the host
    runs,           \* history: per bound translator, whether it called the
                    \*   callback, which callback, and what that returned
    once,           \* history: the same run with every element bound once;
                    \*   whether every registration passed the same callback;
                    \*   and the callback the last registration passed
    stroke,         \* history: the keystroke in progress (since the last key-down)
    lookup          \* a lookup through $.Keys and back through $.KeyNames

vars == <<fn, lastKeydown, keydownSent, firstKeypress, bound, raw, calls, rets,
          runs, once, stroke, lookup>>

(***************************************************************************)
(* Bounds.                                                                 *)
(***************************************************************************)
\* The most calls of $.fn.keyboard in a run.
MaxReg == 2

\* The most character-input events between two key-down events (key repeat).
MaxRepeat == 2

(***************************************************************************)
(* JavaScript values.                                                      *)
(***************************************************************************)
Undefined == 0 - 1

Null == <<"null">>

Str(units) == <<"string", units>>

\* The name read from a table that has no such entry.
NoName == "undefined"

\* String.fromCharCode(c): one UTF-16 code unit, ToUint16(ToNumber(c));
\* ToNumber(undefined) is NaN, and ToUint16(NaN) is 0.
fromCharCode(c) == Str(<<IF c = Undefined THEN 0 ELSE c % 65536>>)

(***************************************************************************)
(* $.Keys, in source order, as <<name, code>> entries.                     *)
(***************************************************************************)
ControlKeys ==
    << <<"Break", 3>>, <<"Backspace", 8>>, <<"Tab", 9>>, <<"FormFeed", 12>>,
       <<"Enter", 13>>, <<"Shift", 16>>, <<"Control", 17>>, <<"Alt", 18>>,
       <<"Pause", 19>>, <<"CapsLock", 20>>, <<"Escape", 27>>, <<"Space", 32>>,
       <<"PageUp", 33>>, <<"PageDown", 34>>, <<"End", 35>>, <<"Home", 36>>,
       <<"LeftArrow", 37>>, <<"UpArrow", 38>>, <<"RightArrow", 39>>,
       <<"DownArrow", 40>>, <<"Insert", 45>>, <<"Delete", 46>> >>

DigitKeys ==
    << <<"Key0", 48>>, <<"Key1", 49>>, <<"Key2", 50>>, <<"Key3", 51>>,
       <<"Key4", 52>>, <<"Key5", 53>>, <<"Key6", 54>>, <<"Key7", 55>>,
       <<"Key8", 56>>, <<"Key9", 57>> >>

LetterKeys ==
    << <<"KeyA", 65>>, <<"KeyB", 66>>, <<"KeyC", 67>>, <<"KeyD", 68>>,
       <<"KeyE", 69>>, <<"KeyF", 70>>, <<"KeyG", 71>>, <<"KeyH", 72>>,
       <<"KeyI", 73>>, <<"KeyJ", 74>>, <<"KeyK", 75>>, <<"KeyL", 76>>,
       <<"KeyM", 77>>, <<"KeyN", 78>>, <<"KeyO", 79>>, <<"KeyP", 80>>,
       <<"KeyQ", 81>>, <<"KeyR", 82>>, <<"KeyS", 83>>, <<"KeyT", 84>>,
       <<"KeyU", 85>>, <<"KeyV", 86>>, <<"KeyW", 87>>, <<"KeyX", 88>>,
       <<"KeyY", 89>>, <<"KeyZ", 90>> >>

\* NumPadKeys with NumPadMinus mistyped as 107, the code of NumPadPlus.
NumPadKeysTypo ==
    << <<"NumPad0", 96>>, <<"NumPad1", 97>>, <<"NumPad2", 98>>,
       <<"NumPad3", 99>>, <<"NumPad4", 100>>, <<"NumPad5", 101>>,
       <<"NumPad6", 102>>, <<"NumPad7", 103>>, <<"NumPad8", 104>>,
       <<"NumPad9", 105>>, <<"NumPadTimes", 106>>, <<"NumPadPlus", 107>>,
       <<"NumPadMinus", 107>>, <<"NumPadDecimal", 110>>,
       <<"NumPadDivide", 111>> >>

NumPadKeys ==
    << <<"NumPad0", 96>>, <<"NumPad1", 97>>, <<"NumPad2", 98>>,
       <<"NumPad3", 99>>, <<"NumPad4", 100>>, <<"NumPad5", 101>>,
       <<"NumPad6", 102>>, <<"NumPad7", 103>>, <<"NumPad8", 104>>,
       <<"NumPad9", 105>>, <<"NumPadTimes", 106>>, <<"NumPadPlus", 107>>,
       <<"NumPadMinus", 109>>, <<"NumPadDecimal", 110>>,
       <<"NumPadDivide", 111>> >>

FunctionKeys ==
    << <<"F1", 112>>, <<"F2", 113>>, <<"F3", 114>>, <<"F4", 115>>,
       <<"F5", 116>>, <<"F6", 117>>, <<"F7", 118>>, <<"F8", 119>>,
       <<"F9", 120>>, <<"F10", 121>>, <<"F11", 122>>, <<"F12", 123>> >>

PunctuationKeys ==
    << <<"NumLock", 144>>, <<"ScrollLock", 145>>, <<"Semicolon", 186>>,
       <<"Equals", 187>>, <<"Comma", 188>>, <<"Minus", 189>>,
       <<"Period", 190>>, <<"Slash", 191>>, <<"Grave", 192>>,
       <<"LeftBracket", 219>>, <<"Backslash", 220>>,
       <<"RightBracket", 221>>, <<"Quote", 222>> >>

Keys ==
    ControlKeys \o DigitKeys \o LetterKeys \o NumPadKeys \o FunctionKeys
        \o PunctuationKeys

KeyNameSet == {Keys[i][1] : i \in 1..Len(Keys)}

\* $.Keys[name] (Keys.Escape and the like).
KeyCode(name) ==
    IF name \in KeyNameSet
    THEN Keys[CHOOSE i \in 1..Len(Keys) : Keys[i][1] = name][2]
    ELSE Undefined

KeyCodeSet == {Keys[i][2] : i \in 1..Len(Keys)}

\* The loop "for(var key in $.Keys) $.KeyNames[$.Keys[key]] = key" visits the
\* entries in order and each assignment overwrites the one before it for the
\* same code: the entry that is left for a code is the last one with it.
LastEntry(code) ==
    CHOOSE i \in 1..Len(Keys) :
        /\ Keys[i][2] = code
        /\ \A j \in 1..Len(Keys) : Keys[j][2] = code => j <= i

KeyNames == [c \in KeyCodeSet |-> Keys[LastEntry(c)][1]]

\* $.KeyNames[code]
KeyName(code) == IF code \in DOMAIN KeyNames THEN KeyNames[code] ELSE NoName

(***************************************************************************)
(* The callbacks a caller may register, and the keyboard object.           *)
(***************************************************************************)
\* keyboard.fn before any registration: function(e) { return false; }
DefaultFn == "default"

\* Two callbacks of the caller: "f" returns true, "g" returns false.
Callbacks == {"f", "g"}

\* keyboard.fn(e): the value callback f returns for the normalized event e.
CallbackResult(f, e) == f = "f"

\* The elements $.fn.keyboard is called on; neither contains the other, so
\* an event on one runs only the handlers bound to it.
Elements == {"document", "input"}

\* keyboard.lastKeydown as constructed, {}: every property reads undefined.
EmptyObject ==
    [ctrl |-> Undefined, shift |-> Undefined, alt |-> Undefined,
     key |-> Undefined, chr |-> Undefined]

\* A plausible slip: one case label of the switch is missing (Pause).
SpecialKeysNoPause ==
    { KeyCode("Control"), KeyCode("Alt"), KeyCode("Shift"),
      KeyCode("FormFeed"), KeyCode("Tab"), KeyCode("Backspace"),
      KeyCode("CapsLock"), KeyCode("NumLock"), KeyCode("ScrollLock"),
      KeyCode("Escape"), KeyCode("Home"), KeyCode("End"), KeyCode("PageUp"),
      KeyCode("PageDown"), KeyCode("Insert"), KeyCode("Delete"),
      KeyCode("F1"), KeyCode("F2"), KeyCode("F3"), KeyCode("F4"),
      KeyCode("F5"), KeyCode("F6"), KeyCode("F7"), KeyCode("F8"),
      KeyCode("F9"), KeyCode("F10"), KeyCode("F11"), KeyCode("F12"),
      KeyCode("LeftArrow"), KeyCode("UpArrow"), KeyCode("RightArrow"),
      KeyCode("DownArrow"), KeyCode("Break"), KeyCode("Enter"),
      KeyCode("Space") }

\* The key codes the key-down translator sends to the callback by itself.
SpecialKeys ==
    { KeyCode("Control"), KeyCode("Alt"), KeyCode("Shift"),
      KeyCode("FormFeed"), KeyCode("Tab"), KeyCode("Backspace"),
      KeyCode("CapsLock"), KeyCode("NumLock"), KeyCode("ScrollLock"),
      KeyCode("Escape"), KeyCode("Home"), KeyCode("End"), KeyCode("PageUp"),
      KeyCode("PageDown"), KeyCode("Insert"), KeyCode("Delete"),
      KeyCode("F1"), KeyCode("F2"), KeyCode("F3"), KeyCode("F4"),
      KeyCode("F5"), KeyCode("F6"), KeyCode("F7"), KeyCode("F8"),
      KeyCode("F9"), KeyCode("F10"), KeyCode("F11"), KeyCode("F12"),
      KeyCode("LeftArrow"), KeyCode("UpArrow"), KeyCode("RightArrow"),
      KeyCode("DownArrow"), KeyCode("Break"), KeyCode("Pause"),
      KeyCode("Enter"), KeyCode("Space") }

(***************************************************************************)
(* Raw events, as the host hands them to a bound handler.                  *)
(***************************************************************************)
NoEvent ==
    [type |-> "none", ctrlKey |-> FALSE, shiftKey |-> FALSE, altKey |-> FALSE,
     keyCode |-> Undefined, charCode |-> Undefined, which |-> Undefined]

\* Key codes of the key-down events tried: Space (special) and Key0 (not).
KeydownCodes == {KeyCode("Space"), KeyCode("Key0")}

\* The character code of ")", what Shift+0 types on a US layout.
RightParen == 41

\* Raw fields of the character-input events tried: keyCode as Gecko sets it
\* (0) or as the others do (the character code), charCode absent, 0 or a
\* character, which 0 or a character.
KeypressKeyCodes == {0, RightParen}

CharCodes == {Undefined, 0, RightParen}

WhichCodes == {0, RightParen}

\* The modifier states tried, as <<ctrlKey, shiftKey, altKey>>: none held
\* and each held alone.
Modifiers ==
    { <<FALSE, FALSE, FALSE>>, <<TRUE, FALSE, FALSE>>, <<FALSE, TRUE, FALSE>>,
      <<FALSE, FALSE, TRUE>> }

KeydownEvents ==
    { [type |-> "keydown", ctrlKey |-> m[1], shiftKey |-> m[2],
       altKey |-> m[3], keyCode |-> k, charCode |-> 0, which |-> k] :
      m \in Modifiers, k \in KeydownCodes }

\* Key-down events with every code of $.Keys, and code 0 of no key.
AllKeydownEvents ==
    { [type |-> "keydown", ctrlKey |-> m[1], shiftKey |-> m[2],
       altKey |-> m[3], keyCode |-> k, charCode |-> 0, which |-> k] :
      m \in Modifiers, k \in KeyCodeSet \cup {0} }

KeypressEvents ==
    { [type |-> "keypress", ctrlKey |-> m[1], shiftKey |-> m[2],
       altKey |-> m[3], keyCode |-> k, charCode |-> cc, which |-> w] :
      m \in Modifiers, k \in KeypressKeyCodes, cc \in CharCodes,
      w \in WhichCodes }

(***************************************************************************)
(* The translators.  Each takes the keyboard object kb (lastKeydown,       *)
(* keydownSent, firstKeypress), the registered callback f and the raw      *)
(* event, and yields the keyboard object afterwards, the normalized events *)
(* it passed to the callback (none or one) and the value it returned.      *)
(***************************************************************************)
\* A plausible slip: the key-down translator derives a character itself.
KeydownEventWithChr(event) ==
    [ctrl |-> event.ctrlKey, shift |-> event.shiftKey, alt |-> event.altKey,
     key |-> event.keyCode, chr |-> fromCharCode(event.keyCode)]

\* The normalized event onKeydown builds from the raw event.
KeydownEvent(event) ==
    [ctrl |-> event.ctrlKey, shift |-> event.shiftKey, alt |-> event.altKey,
     key |-> event.keyCode, chr |-> Null]

\* A plausible slip: the callback is called and its value dropped.
ReturnedDropped(result) == TRUE

\* "return keyboard.fn(e)": the handler returns what the callback returned.
Returned(result) == result

onKeydown(kb, f, event) ==
    LET e == KeydownEvent(event)
        kb1 == [kb EXCEPT !.lastKeydown = e, !.firstKeypress = TRUE]
    IN  IF e.ctrl \/ e.alt
        THEN [kb |-> [kb1 EXCEPT !.keydownSent = TRUE],
              sent |-> <<e>>, ret |-> Returned(CallbackResult(f, e))]
        ELSE IF e.key \in SpecialKeys
        THEN [kb |-> [kb1 EXCEPT !.keydownSent = TRUE],
              sent |-> <<e>>, ret |-> Returned(CallbackResult(f, e))]
        ELSE [kb |-> [kb1 EXCEPT !.keydownSent = FALSE],
              sent |-> <<>>, ret |-> TRUE]

\* A plausible slip: two of the modifier flags are copied crosswise.
KeypressEventCrossed(event) ==
    [ctrl |-> event.ctrlKey, shift |-> event.altKey, alt |-> event.shiftKey,
     key |-> event.keyCode, chr |-> Null]

\* The normalized event onKeypress starts from.
KeypressEvent(event) ==
    [ctrl |-> event.ctrlKey, shift |-> event.shiftKey, alt |-> event.altKey,
     key |-> event.keyCode, chr |-> Null]

\* A plausible slip: firstKeypress is read after it was cleared, so no
\* character-input event is ever held back.
AlreadySentReadLate(first, sent) == FALSE /\ sent

\* A plausible slip: the flag is tested inverted.
AlreadySentInverted(first, sent) == first /\ ~sent

\* A plausible slip: firstKeypress is not tested, so every character-input
\* event of a keystroke onKeydown has sent is held back.
AlreadySentEvery(first, sent) == sent

\* "if(first && keyboard.keydownSent) return false": the first character
\* event of a keystroke that onKeydown has sent already.
AlreadySent(first, sent) == first /\ sent

\* A plausible slip: Gecko's branch reads keyCode, which is 0 there.
DeriveChrFromKeyCode(event) ==
    IF event.keyCode = 0
    THEN fromCharCode(event.keyCode)
    ELSE IF event.which = 0
    THEN Null
    ELSE IF event.charCode # Undefined /\ event.charCode > 0
    THEN fromCharCode(event.charCode)
    ELSE IF event.charCode = Undefined
    THEN fromCharCode(event.which)
    ELSE Null

\* A plausible slip: the last "else if" written as "else".
DeriveChrElse(event) ==
    IF event.keyCode = 0
    THEN fromCharCode(event.charCode)
    ELSE IF event.which = 0
    THEN Null
    ELSE IF event.charCode # Undefined /\ event.charCode > 0
    THEN fromCharCode(event.charCode)
    ELSE fromCharCode(event.which)

\* The ordered fallback of onKeypress that derives e.chr from the raw fields
\* (taken only when keydownSent is false).
DeriveChr(event) ==
    IF event.keyCode = 0
    THEN fromCharCode(event.charCode)
    ELSE IF event.which = 0
    THEN Null
    ELSE IF event.charCode # Undefined /\ event.charCode > 0
    THEN fromCharCode(event.charCode)
    ELSE IF event.charCode = Undefined
    THEN fromCharCode(event.which)
    ELSE Null

\* A plausible slip: the character event keeps its own key code.
PreservedKeyOwn(kb, event) == event.keyCode

\* "e.key = keyboard.lastKeydown.key"
PreservedKey(kb, event) == kb.lastKeydown.key

\* A plausible slip: the character event resets the keystroke's state.
ClearFirstAndSent(kb) ==
    [kb EXCEPT !.firstKeypress = FALSE, !.keydownSent = FALSE]

\* "keyboard.firstKeypress = false"
ClearFirst(kb) == [kb EXCEPT !.firstKeypress = FALSE]

\* A plausible slip: the character is derived whether or not onKeydown has
\* sent the keystroke.
TranslatesAlways(kb) == TRUE

\* "if(!keyboard.keydownSent)": translate to a character only if onKeydown
\* did not handle the keystroke.
Translates(kb) == ~kb.keydownSent

onKeypress(kb, f, event) ==
    LET e0 == KeypressEvent(event)
        first == kb.firstKeypress
        kb1 == ClearFirst(kb)
    IN  IF AlreadySent(first, kb1.keydownSent)
        THEN [kb |-> kb1, sent |-> <<>>, ret |-> FALSE]
        ELSE LET e1 == IF Translates(kb1)
                       THEN [e0 EXCEPT !.chr = DeriveChr(event)]
                       ELSE e0
                 e == [e1 EXCEPT !.key = PreservedKey(kb1, event)]
             IN  [kb |-> kb1, sent |-> <<e>>,
                  ret |-> Returned(CallbackResult(f, e))]

\* The handler $.fn.keyboard binds for an event of this type.
Handler(kb, f, event) ==
    IF event.type = "keydown" THEN onKeydown(kb, f, event)
                              ELSE onKeypress(kb, f, event)

\* What one run of a handler did with the callback f: whether it called it,
\* and then which callback that was and what it returned for the event.
RunOf(f, sent) ==
    IF sent = <<>>
    THEN [called |-> FALSE, to |-> "none", result |-> FALSE]
    ELSE [called |-> TRUE, to |-> f, result |-> CallbackResult(f, sent[1])]

\* The outcome so far of the handler's runs for one raw event, with one
\* more run r added.
AddRun(before, r, f) ==
    [kb |-> r.kb, sent |-> before.sent \o r.sent,
     rets |-> Append(before.rets, r.ret),
     runs |-> Append(before.runs, RunOf(f, r.sent))]

\* One more run of the handler, from the state the runs before left.
RunAgain(before, f, event) == AddRun(before, Handler(before.kb, f, event), f)

\* The host runs the handler once per binding, in the order bound, each to
\* completion: the state after n runs, every normalized event the callback
\* was passed and every value returned to the host.
RECURSIVE Trigger(_, _, _, _)
Trigger(kb, f, event, n) ==
    IF n = 0
    THEN [kb |-> kb, sent |-> <<>>, rets |-> <<>>, runs |-> <<>>]
    ELSE RunAgain(Trigger(kb, f, event, n - 1), f, event)

(***************************************************************************)
(* The state machine.                                                      *)
(***************************************************************************)
keyboard ==
    [lastKeydown |-> lastKeydown, keydownSent |-> keydownSent,
     firstKeypress |-> firstKeypress]

NewKeyboard ==
    [lastKeydown |-> EmptyObject, keydownSent |-> FALSE,
     firstKeypress |-> FALSE]

NewStroke ==
    [down |-> NoEvent, presses |-> 0, calls |-> 0, single |-> TRUE,
     allNull |-> TRUE, sameKey |-> TRUE]

NewLookup == [stage |-> "name", name |-> Keys[1][1], code |-> Undefined,
              back |-> NoName]

Registrations == bound["document"] + bound["input"]

InitKeyboard ==
    /\ fn = DefaultFn
    /\ lastKeydown = NewKeyboard.lastKeydown
    /\ keydownSent = NewKeyboard.keydownSent
    /\ firstKeypress = NewKeyboard.firstKeypress
    /\ bound = [el \in Elements |-> 0]
    /\ raw = NoEvent
    /\ calls = <<>>
    /\ rets = <<>>
    /\ runs = <<>>
    /\ once = [kb |-> NewKeyboard, calls |-> <<>>, same |-> TRUE,
               last |-> DefaultFn]
    /\ stroke = NewStroke

Init ==
    /\ InitKeyboard
    /\ lookup = NewLookup

\* A plausible slip: a callback once registered is kept.
NewFnKeepFirst(old, f) == IF old = DefaultFn THEN f ELSE old

\* "keyboard.fn = fn"
NewFn(old, f) == f

\* $.fn.keyboard(f) on element el: sets the callback and binds both
\* translators to el once more.  No raw event is handled in this step.
Register(el, f) ==
    /\ Registrations < MaxReg
    /\ fn' = NewFn(fn, f)
    /\ bound' = [bound EXCEPT ![el] = @ + 1]
    /\ raw' = NoEvent
    /\ calls' = <<>>
    /\ rets' = <<>>
    /\ runs' = <<>>
    /\ once' = [once EXCEPT !.calls = <<>>,
                            !.same = @ /\ once.last \in {DefaultFn, f},
                            !.last = f]
    /\ UNCHANGED <<lastKeydown, keydownSent, firstKeypress, stroke, lookup>>

\* The keystroke in progress after a raw event that made the callback
\* invocations sent, on an element with n bindings.
NextStroke(event, sent, n) ==
    LET nulls == \A i \in 1..Len(sent) : sent[i].chr = Null
        keys(code) == \A i \in 1..Len(sent) : sent[i].key = code
    IN  IF event.type = "keydown"
        THEN [down |-> event, presses |-> 0, calls |-> Len(sent),
              single |-> n = 1, allNull |-> nulls,
              sameKey |-> keys(event.keyCode)]
        ELSE [stroke EXCEPT !.presses = @ + 1, !.calls = @ + Len(sent),
                            !.single = @ /\ n = 1, !.allNull = @ /\ nulls,
                            !.sameKey = @ /\ keys(stroke.down.keyCode)]

\* The effect of one raw event on an element with n bindings.
Fire(event, n) ==
    \E r \in {Trigger(keyboard, fn, event, n)},
       o \in {Trigger(once.kb, fn, event, 1)} :
        /\ lastKeydown' = r.kb.lastKeydown
        /\ keydownSent' = r.kb.keydownSent
        /\ firstKeypress' = r.kb.firstKeypress
        /\ raw' = event
        /\ calls' = r.sent
        /\ rets' = r.rets
        /\ runs' = r.runs
        /\ once' = [once EXCEPT !.kb = o.kb, !.calls = o.sent]
        /\ stroke' = NextStroke(event, r.sent, n)
        /\ UNCHANGED <<fn, bound, lookup>>

\* A key-down event on an element the translators are bound to (an event on
\* any other element reaches no translator).
Keydown(el, event) ==
    /\ bound[el] >= 1
    /\ Fire(event, bound[el])

\* A character-input event on an element the translators are bound to.
Keypress(el, event) ==
    /\ bound[el] >= 1
    /\ stroke.presses < MaxRepeat
    /\ Fire(event, bound[el])

Next ==
    \/ \E el \in Elements, f \in Callbacks : Register(el, f)
    \/ \E el \in Elements, event \in KeydownEvents : Keydown(el, event)
    \/ \E el \in Elements, event \in KeypressEvents : Keypress(el, event)

Spec == Init /\ [][Next]_vars

(***************************************************************************)
(* The tables on their own: a name is looked up in $.Keys, and the code    *)
(* found is looked up in $.KeyNames.                                       *)
(***************************************************************************)
InitTable ==
    /\ InitKeyboard
    /\ lookup \in {[NewLookup EXCEPT !.name = n] : n \in KeyNameSet}

Forward ==
    /\ lookup.stage = "name"
    /\ lookup' = [lookup EXCEPT !.stage = "code", !.code = KeyCode(lookup.name)]
    /\ UNCHANGED <<fn, lastKeydown, keydownSent, firstKeypress, bound, raw,
                   calls, rets, runs, once, stroke>>

Reverse ==
    /\ lookup.stage = "code"
    /\ lookup' = [lookup EXCEPT !.stage = "back", !.back = KeyName(lookup.code)]
    /\ UNCHANGED <<fn, lastKeydown, keydownSent, firstKeypress, bound, raw,
                   calls, rets, runs, once, stroke>>

NextTable == Forward \/ Reverse

SpecTable == InitTable /\ [][NextTable]_vars

(***************************************************************************)
(* The key-down translator on its own, over every key code: registrations  *)
(* on one element and key-down events on it.                               *)
(***************************************************************************)
NextKeys ==
    \/ \E f \in Callbacks : Register("document", f)
    \/ \E event \in AllKeydownEvents : Keydown("document", event)

SpecKeys == Init /\ [][NextKeys]_vars

(***************************************************************************)
(* What the claims speak of.                                               *)
(***************************************************************************)
\* The raw event handled last was a key-down / a character-input event.
AfterKeydown == raw.type = "keydown"

AfterKeypress == raw.type = "keypress"

\* The translators have seen a key-down event.
StrokeOpen == stroke.down.type = "keydown"

\* Every normalized event the callback was passed for the last raw event.
Delivered == {calls[i] : i \in 1..Len(calls)}

\* The raw character-input event names a character: a character code above
\* 0 in charCode or, where charCode is absent, in which.
HasCharacter(event) ==
    \/ event.charCode # Undefined /\ event.charCode > 0
    \/ event.charCode = Undefined /\ event.which > 0

\* A raw field of the character-input event says "no printable character".
NoPrintable(event) == event.which = 0 \/ event.charCode = 0

\* The raw character-input event of Shift+0 on a US layout, in the shapes
\* the browsers give it: Gecko (keyCode 0, the character in charCode), the
\* others (the character in which, and in charCode where there is one).
TypesRightParen(event) ==
    /\ event.type = "keypress"
    /\ event.shiftKey /\ ~event.ctrlKey /\ ~event.altKey
    /\ \/ event.keyCode = 0 /\ event.charCode = RightParen
       \/ /\ event.keyCode # 0
          /\ event.which = RightParen
          /\ event.charCode \in {RightParen, Undefined}

(***************************************************************************)
(* C1.  Registration is idempotent: with $.fn.keyboard called again on an  *)
(* element with the same callback, every raw event gives the callback the  *)
(* same normalized events, as many times, as with one registration.        *)
(***************************************************************************)
C1_Idempotent == once.same => calls = once.calls

(***************************************************************************)
(* C2.  A key-down event with Ctrl or Alt set, alone or followed by its    *)
(* character-input event (each handled by the translator once), gives the  *)
(* callback exactly one normalized event, and its chr is null.             *)
(***************************************************************************)
C2_CtrlAltOnce ==
    (/\ StrokeOpen
     /\ stroke.single
     /\ stroke.down.ctrlKey \/ stroke.down.altKey
     /\ stroke.presses <= 1)
        => stroke.calls = 1 /\ stroke.allNull

C2_Witness ==
    /\ StrokeOpen /\ stroke.single /\ AfterKeypress
    /\ stroke.down.ctrlKey
    /\ stroke.presses = 1
    /\ HasCharacter(raw)
    /\ stroke.calls = 1

(***************************************************************************)
(* C3.  Every normalized event passed to the callback has a defined number *)
(* in e.key, also for a character-input event that arrives before any      *)
(* key-down event.                                                         *)
(***************************************************************************)
C3_ValidKey == \A e \in Delivered : e.key # Undefined

(***************************************************************************)
(* C4.  A normalized event passed to the callback has a non-null chr if    *)
(* and only if neither e.ctrl nor e.alt is set, the keystroke has a        *)
(* character, and e.key is not Space, Enter or Tab.                        *)
(***************************************************************************)
C4_ChrIff ==
    \A e \in Delivered :
        e.chr # Null <=>
            /\ ~e.ctrl /\ ~e.alt
            /\ AfterKeypress /\ HasCharacter(raw)
            /\ e.key \notin {KeyCode("Space"), KeyCode("Enter"), KeyCode("Tab")}

(***************************************************************************)
(* C5.  When onKeypress translates the character-input event of a          *)
(* keystroke that onKeydown deferred (keydownSent is false) and a raw      *)
(* field says "no printable character" (which is 0, or charCode is 0), chr *)
(* is null, also when keyCode is 0.                                        *)
(***************************************************************************)
C5_NullWhenNoChar ==
    (AfterKeypress /\ StrokeOpen /\ ~keydownSent /\ NoPrintable(raw))
        => \A e \in Delivered : e.chr = Null

(***************************************************************************)
(* C6.  When onKeydown has sent the keystroke to the callback, the         *)
(* character-input event that follows it is held back: its handler returns *)
(* false without calling the callback, and the callback has been called    *)
(* once for the keystroke.                                                 *)
(***************************************************************************)
C6_NoResend ==
    (/\ AfterKeypress /\ StrokeOpen /\ stroke.single
     /\ keydownSent
     /\ stroke.presses = 1)
        => calls = <<>> /\ rets = <<FALSE>> /\ stroke.calls = 1

C6_Witness ==
    /\ AfterKeypress /\ StrokeOpen /\ stroke.single
    /\ keydownSent
    /\ stroke.presses = 1
    /\ stroke.down.keyCode = KeyCode("Space")
    /\ ~stroke.down.ctrlKey /\ ~stroke.down.altKey
    /\ fn = "f"
    /\ rets = <<FALSE>>

(***************************************************************************)
(* C7.  A character-input event after a key-down event with neither Ctrl   *)
(* nor Alt and a key that is not special reaches the callback with e.key   *)
(* the key code of that key-down event, whatever its own keyCode is.       *)
(***************************************************************************)
C7_KeyFromKeydown ==
    (/\ AfterKeypress /\ StrokeOpen
     /\ ~stroke.down.ctrlKey /\ ~stroke.down.altKey
     /\ stroke.down.keyCode \notin SpecialKeys)
        => /\ Len(calls) = Len(rets)
           /\ \A e \in Delivered : e.key = stroke.down.keyCode

C7_Witness ==
    /\ AfterKeypress /\ StrokeOpen
    /\ ~stroke.down.ctrlKey /\ ~stroke.down.altKey
    /\ stroke.down.keyCode = KeyCode("Key0")
    /\ raw.keyCode = RightParen
    /\ \E e \in Delivered : e.key = KeyCode("Key0")

(***************************************************************************)
(* C8.  Every normalized event onKeydown passes to the callback has chr    *)
(* null, so no keystroke has a non-null chr from both translators.         *)
(***************************************************************************)
C8_KeydownChrNull == AfterKeydown => \A e \in Delivered : e.chr = Null

C8_Witness ==
    /\ AfterKeydown
    /\ raw.keyCode = KeyCode("Space")
    /\ \E e \in Delivered : e.chr = Null /\ e.key = KeyCode("Space")

(***************************************************************************)
(* C9.  After a key-down event with the code of "0" (48) and Shift, and    *)
(* neither Ctrl nor Alt, the character-input event the browser sends for   *)
(* Shift+0 reaches the callback with key 48, shift true and chr ")".       *)
(***************************************************************************)
C9_ShiftZero ==
    (/\ StrokeOpen
     /\ stroke.down.keyCode = KeyCode("Key0")
     /\ stroke.down.shiftKey
     /\ ~stroke.down.ctrlKey /\ ~stroke.down.altKey
     /\ TypesRightParen(raw))
        => /\ Len(calls) = Len(rets)
           /\ \A e \in Delivered :
                 e = [ctrl |-> FALSE, shift |-> TRUE, alt |-> FALSE,
                      key |-> 48, chr |-> Str(<<RightParen>>)]

C9_Witness ==
    /\ StrokeOpen
    /\ stroke.down.keyCode = KeyCode("Key0")
    /\ stroke.down.shiftKey
    /\ TypesRightParen(raw)
    /\ raw.keyCode = 0
    /\ stroke.presses = 1
    /\ \E e \in Delivered : e.chr = Str(<<RightParen>>)

(***************************************************************************)
(* C10.  For every name in $.Keys, looking its code up in $.KeyNames gives *)
(* the name back; no two names share a code.                               *)
(***************************************************************************)
C10_ReverseLookup ==
    /\ lookup.stage = "back" => lookup.back = lookup.name
    /\ lookup.stage # "name" =>
          \A i \in 1..Len(Keys) :
              Keys[i][2] = lookup.code => Keys[i][1] = lookup.name

C10_Witness ==
    /\ lookup.stage = "back"
    /\ lookup.name = "NumPadPlus"
    /\ lookup.back = "NumPadPlus"

(***************************************************************************)
(* C11.  A handler that calls the callback returns to the host exactly     *)
(* what the callback returned; a handler returns a value of its own only   *)
(* when it does not call the callback: true from a deferred key-down,      *)
(* false from a held-back character-input event.                           *)
(***************************************************************************)
C11_ReturnPropagated ==
    /\ Len(runs) = Len(rets)
    /\ \A i \in 1..Len(runs) :
          IF runs[i].called
          THEN rets[i] = runs[i].result
          ELSE rets[i] = AfterKeydown

C11_Witness ==
    /\ AfterKeypress
    /\ fn = "g"
    /\ Len(runs) = 2
    /\ ~runs[1].called /\ rets[1] = FALSE
    /\ runs[2].called /\ rets[2] = FALSE
    /\ \E e \in Delivered : TRUE

(***************************************************************************)
(* C12.  In every normalized event passed to the callback, ctrl, alt and   *)
(* shift are the ctrlKey, altKey and shiftKey of the raw event being       *)
(* handled, never those of an earlier event.                               *)
(***************************************************************************)
C12_FlagsAccurate ==
    \A e \in Delivered :
        /\ e.ctrl = raw.ctrlKey
        /\ e.alt = raw.altKey
        /\ e.shift = raw.shiftKey

C12_Witness ==
    /\ AfterKeypress /\ StrokeOpen
    /\ stroke.down.shiftKey /\ ~raw.shiftKey
    /\ ~stroke.down.altKey /\ raw.altKey
    /\ \E e \in Delivered : e.alt /\ ~e.shift

(***************************************************************************)
(* C13.  When onKeypress translates and no branch of the fallback matches  *)
(* (keyCode is not 0, which is not 0, charCode is there but not above 0),  *)
(* chr stays null and the callback is still called with the event.         *)
(***************************************************************************)
C13_NoBranchNull ==
    (/\ AfterKeypress /\ ~keydownSent
     /\ raw.keyCode # 0 /\ raw.which # 0
     /\ raw.charCode # Undefined /\ ~(raw.charCode > 0))
        => /\ Len(calls) = Len(rets)
           /\ \A i \in 1..Len(runs) : runs[i].called
           /\ \A e \in Delivered : e.chr = Null

C13_Witness ==
    /\ AfterKeypress /\ StrokeOpen /\ ~keydownSent
    /\ raw.keyCode = RightParen /\ raw.which = RightParen
    /\ raw.charCode = 0
    /\ \E e \in Delivered : e.chr = Null /\ e.key = KeyCode("Key0")

(***************************************************************************)
(* C14.  onKeydown calls the callback if and only if Ctrl or Alt is held   *)
(* or the key code is one of Control, Alt, Shift, FormFeed, Tab,           *)
(* Backspace, CapsLock, NumLock, ScrollLock, Escape, Home, End, PageUp,    *)
(* PageDown, Insert, Delete, F1-F12, the four arrows, Break, Pause, Enter, *)
(* Space; otherwise it returns true and leaves keydownSent false.          *)
(***************************************************************************)
ListedSpecial ==
    {17, 18, 16, 12, 9, 8, 20, 144, 145, 27, 36, 35, 33, 34, 45, 46}
        \cup (112..123) \cup (37..40) \cup {3, 19, 13, 32}

C14_KeydownDispatch ==
    AfterKeydown =>
        LET dispatch ==
                raw.ctrlKey \/ raw.altKey \/ raw.keyCode \in ListedSpecial
        IN  /\ Len(runs) >= 1
            /\ \A i \in 1..Len(runs) : runs[i].called <=> dispatch
            /\ ~dispatch =>
                  /\ ~keydownSent
                  /\ \A i \in 1..Len(rets) : rets[i] = TRUE

C14_Witness ==
    /\ AfterKeydown
    /\ raw.keyCode = KeyCode("Pause")
    /\ ~raw.ctrlKey /\ ~raw.altKey
    /\ runs[1].called
    /\ keydownSent

(***************************************************************************)
(* C15.  Key repeat: a key-down event followed by n >= 1 character-input   *)
(* events and no further key-down (each handled by the translators once)   *)
(* calls the callback exactly n times: once from the key-down and n - 1    *)
(* times from the character events after the first, all with chr null, if  *)
(* onKeydown sent the keystroke; n times from the character events if it   *)
(* deferred; and every one of the events has the key-down's key code.      *)
(***************************************************************************)
C15_KeyRepeat ==
    (StrokeOpen /\ stroke.single /\ stroke.presses >= 1)
        => /\ stroke.calls = stroke.presses
           /\ stroke.sameKey
           /\ keydownSent => stroke.allNull
           /\ (AfterKeypress /\ keydownSent) =>
                 Len(calls) = (IF stroke.presses = 1 THEN 0 ELSE 1)
           /\ (AfterKeypress /\ ~keydownSent) => Len(calls) = 1

C15_Witness ==
    /\ StrokeOpen /\ stroke.single /\ AfterKeypress
    /\ stroke.presses = 2
    /\ keydownSent
    /\ stroke.calls = 2
    /\ HasCharacter(raw)

(***************************************************************************)
(* C16.  keydownSent is true exactly when the last key-down event was sent *)
(* to the callback (Ctrl or Alt held, or a special key) and lastKeydown is *)
(* the normalized form of that event; a character-input event changes      *)
(* neither (before any key-down both are as constructed) and clears        *)
(* firstKeypress.                                                          *)
(***************************************************************************)
C16_SessionState ==
    /\ StrokeOpen =>
          /\ keydownSent <=>
                \/ stroke.down.ctrlKey \/ stroke.down.altKey
                \/ stroke.down.keyCode \in ListedSpecial
          /\ lastKeydown =
                [ctrl |-> stroke.down.ctrlKey, shift |-> stroke.down.shiftKey,
                 alt |-> stroke.down.altKey, key |-> stroke.down.keyCode,
                 chr |-> Null]
    /\ ~StrokeOpen => ~keydownSent /\ lastKeydown = EmptyObject
    /\ AfterKeypress => ~firstKeypress
    /\ AfterKeydown => firstKeypress /\ raw = stroke.down

C16_Witness ==
    /\ AfterKeypress /\ StrokeOpen
    /\ stroke.presses = 2
    /\ keydownSent
    /\ stroke.down.keyCode = KeyCode("Key0") /\ stroke.down.altKey
    /\ ~raw.altKey /\ raw.keyCode = 0
    /\ lastKeydown.key = KeyCode("Key0")

(***************************************************************************)
(* C17.  A non-null chr comes only from a character-input event handled    *)
(* while keydownSent is false: every event onKeypress sends while the last *)
(* key-down was sent already has chr null, whatever charCode, which and    *)
(* keyCode are.                                                            *)
(***************************************************************************)
C17_ChrOnlyWhenDeferred ==
    \A e \in Delivered : e.chr # Null => AfterKeypress /\ ~keydownSent

C17_Witness ==
    /\ AfterKeypress /\ keydownSent
    /\ stroke.presses = 2
    /\ raw.charCode = RightParen /\ raw.which = RightParen
    /\ \E e \in Delivered : e.chr = Null

(***************************************************************************)
(* C18.  One callback is shared by all registrations: every normalized     *)
(* event is passed to the callback of the last $.fn.keyboard call, from    *)
(* whichever registration the handler was bound by, and never to an        *)
(* earlier one; the callback there is before any registration returns      *)
(* false.                                                                  *)
(***************************************************************************)
C18_SingleCallback ==
    /\ \A i \in 1..Len(runs) : runs[i].called => runs[i].to = once.last
    /\ Registrations = 0 =>
          /\ fn = DefaultFn
          /\ \A e \in {KeydownEvent(ev) : ev \in KeydownEvents} :
                CallbackResult(fn, e) = FALSE

C18_Witness ==
    /\ bound["document"] = 1 /\ bound["input"] = 1
    /\ ~once.same /\ once.last = "g"
    /\ Len(runs) = 1
    /\ runs[1].called /\ runs[1].to = "g"

=============================================================================
